---- MODULE Spec2Model ----
(***************************************************************************)
(* State-machine model of detect/detector.py (class Detector): the         *)
(* constructor, detect, im_detect, im_detect_single, visualize_detection   *)
(* and detect_and_visualize.                                               *)
(*                                                                         *)
(* Units: every float of a detection row (class id, score, normalised box  *)
(* coordinates) is kept as an integer number of hundredths, except the     *)
(* class id, which is kept as the integer it holds.  A string that the     *)
(* code inspects character by character (a file name) is a sequence of     *)
(* one-character strings.                                                  *)
(*                                                                         *)
(* The external runtime (mxnet) and cv2 are outside the repository: the    *)
(* outcome of a call into them that the source does not decide (does       *)
(* predict raise, what does a file hold) is drawn with \E.                 *)
(***************************************************************************)
EXTENDS Integers, Sequences, FiniteSets, TLC

VARIABLES self, ctor, call, pc, det, res, res2

vars == <<self, ctor, call, pc, det, res, res2>>

(***************************************************************************)
(* Bounds of the model.                                                    *)
(***************************************************************************)
\* rows of one per-image output tensor (max_detections)
MaxDet == 2
\* samples in one batch source handed to detect
MaxImages == 2
\* largest batch_size the constructor is called with
MaxBatch == 2
\* image ids run over 0..MaxImageId
MaxImageId == 8
\* first dimension of a frame decoded by cv2.VideoCapture
FrameHeight == 2

\* default of the thresh parameter (0.6), in hundredths
DefaultThresh == 60

None == "None"

(***************************************************************************)
(* Values.                                                                 *)
(***************************************************************************)
\* a detection row [id, score, xmin, ymin, xmax, ymax]
PadRow == <<-1, -1, -1, -1, -1, -1>>
NetRows == << PadRow, <<0, 61, 10, 10, 50, 50>>, <<1, 59, 20, 20, 60, 60>> >>

ImageIds == 0..MaxImageId

RECURSIVE Pow(_, _)
Pow(b, e) == IF e = 0 THEN 1 ELSE b * Pow(b, e - 1)

\* The loaded network, as a function of the image: row r of the raw output
\* for image img is the r-th digit of img in base Len(NetRows).
NetOutput(img) ==
    [r \in 1..MaxDet |-> NetRows[((img \div Pow(Len(NetRows), r - 1)) % Len(NetRows)) + 1]]

SeqsUpTo(S, n) == UNION {[1..k -> S] : k \in 0..n}

(***************************************************************************)
(* Detector.__init__                                                       *)
(***************************************************************************)
\* checkpoint files on disk, keyed by (prefix, epoch)
Checkpoints == { <<"ssd", 0>> }
Prefixes == {"ssd", "nofile"}
Epochs == {0, 1}
Symbols == {None, "net"}
Contexts == {None, "gpu"}
DataShapes == {300}
MeanPixels == { <<123, 117, 104>> }

\* the symbol stored in a checkpoint
load_symbol == "checkpoint_net"

NoMod == [symbol |-> None, context |-> None, data_shapes |-> <<>>, params |-> <<>>]
NoSelf == [exists |-> FALSE, ctx |-> None, mod |-> NoMod,
           data_shape |-> 0, mean_pixels |-> <<>>]

InitArgs ==
    [symbol : Symbols, model_prefix : Prefixes, epoch : Epochs,
     data_shape : DataShapes, mean_pixels : MeanPixels,
     batch_size : 1..MaxBatch, ctx : Contexts]

\* where the external runtime raises during construction, if anywhere
RuntimeFaults == {"none", "Module", "bind", "set_params"}

NoArgs == [symbol |-> None, model_prefix |-> None, epoch |-> 0, data_shape |-> 0,
           mean_pixels |-> <<>>, batch_size |-> 0, ctx |-> None]
\* the last constructor call: its arguments, the runtime calls it made in
\* order, the call that raised (None when it returned), the context handed to
\* mx.mod.Module and the value of self.ctx
NoCtor == [called |-> FALSE, args |-> NoArgs, steps |-> <<>>, error |-> None,
           module_context |-> None, self_ctx |-> None]

\* faulty variant of init_run: the checkpoint is loaded only after the module
\* is created and bound
init_run_late_load(a, fault) ==
    LET self_ctx == IF a.ctx = None THEN "cpu" ELSE a.ctx
        sym == IF a.symbol = None THEN load_symbol ELSE a.symbol
        base == [NoCtor EXCEPT !.called = TRUE, !.args = a, !.self_ctx = self_ctx]
    IN  IF <<a.model_prefix, a.epoch>> \notin Checkpoints
        THEN [ctor |-> [base EXCEPT !.steps = <<"Module", "bind", "load_checkpoint">>,
                                    !.error = "load_checkpoint",
                                    !.module_context = a.ctx],
              self |-> NoSelf]
        ELSE [ctor |-> [base EXCEPT !.steps = <<"Module", "bind", "load_checkpoint", "set_params">>,
                                    !.module_context = a.ctx],
              self |-> [exists |-> TRUE, ctx |-> self_ctx,
                        mod |-> [symbol |-> sym, context |-> a.ctx,
                                 data_shapes |-> <<a.batch_size, 3, a.data_shape, a.data_shape>>,
                                 params |-> <<a.model_prefix, a.epoch>>],
                        data_shape |-> a.data_shape, mean_pixels |-> a.mean_pixels]]

\* The constructor, statement by statement; the result is the record of the
\* call (the runtime calls made, in order, and the error raised) and the
\* instance, which exists only when no statement raised.
init_run(a, fault) ==
    LET self_ctx == IF a.ctx = None THEN "cpu" ELSE a.ctx          \* lines 31-33
        sym == IF a.symbol = None THEN load_symbol ELSE a.symbol    \* lines 35-36
        base == [NoCtor EXCEPT !.called = TRUE, !.args = a, !.self_ctx = self_ctx]
        failed(steps, err, mctx) ==
            [ctor |-> [base EXCEPT !.steps = steps, !.error = err, !.module_context = mctx],
             self |-> NoSelf]
    IN  IF <<a.model_prefix, a.epoch>> \notin Checkpoints            \* line 34
        THEN failed(<<"load_checkpoint">>, "load_checkpoint", None)
        ELSE IF fault = "Module"                                     \* line 37: context=ctx
        THEN failed(<<"load_checkpoint", "Module">>, "Module", a.ctx)
        ELSE IF fault = "bind"                                       \* line 39
        THEN failed(<<"load_checkpoint", "Module", "bind">>, "bind", a.ctx)
        ELSE IF fault = "set_params"                                 \* line 40
        THEN failed(<<"load_checkpoint", "Module", "bind", "set_params">>, "set_params", a.ctx)
        ELSE [ctor |-> [base EXCEPT !.steps = <<"load_checkpoint", "Module", "bind", "set_params">>,
                                    !.module_context = a.ctx],
              self |-> [exists |-> TRUE, ctx |-> self_ctx,
                        mod |-> [symbol |-> sym, context |-> a.ctx,
                                 data_shapes |-> <<a.batch_size, 3, a.data_shape, a.data_shape>>,
                                 params |-> <<a.model_prefix, a.epoch>>],
                        data_shape |-> a.data_shape,                 \* lines 38, 41
                        mean_pixels |-> a.mean_pixels]]              \* line 42


(***************************************************************************)
(* Batch sources.  A source is the list of its samples (image ids, in      *)
(* submission order), its batch size, whether it is already a              *)
(* PrefetchingIter, and whether reading one of its samples raises.         *)
(***************************************************************************)
NoSource == [batch_size |-> 0, prefetching |-> FALSE, data |-> <<>>, broken |-> FALSE]

FileKinds == {"missing", "image", "video", "both"}
\* what a path names: nothing, a still image, a video, or a file that both
\* cv2.imread and cv2.VideoCapture decode; pic is the picture it holds
Files ==
    {[kind |-> "missing", pic |-> 0]} \cup [kind : FileKinds \ {"missing"}, pic : ImageIds]
ImageFiles == {f \in Files : f.kind = "image"}

\* a decoded array, or None (ok = FALSE); the first axis indexes the samples
NoneArray == [ok |-> FALSE, samples |-> <<>>]
Array(samples) == [ok |-> TRUE, samples |-> samples]

\* dataset.testdb.TestDB: the list of image paths (a single path is a list of one)
TestDB(im_list) == im_list

\* dataset.iterator.DetIter: one sample per image of the database, in order
DetIter(imdb, batch_size, data_shape, mean_pixels) ==
    [batch_size |-> batch_size, prefetching |-> FALSE,
     data |-> [k \in 1..Len(imdb) |-> imdb[k].pic],
     broken |-> \E k \in 1..Len(imdb) : imdb[k].kind \notin {"image", "both"}]

\* mx.io.NDArrayIter(data={'data': data}, label={}, batch_size=...)
NDArrayIter(data, batch_size) ==
    [batch_size |-> batch_size, prefetching |-> FALSE, data |-> data.samples, broken |-> FALSE]

\* mx.io.PrefetchingIter(det_iter)
PrefetchingIter(det_iter) == [det_iter EXCEPT !.prefetching = TRUE]

\* self.mod.predict(det_iter).asnumpy(): one output slot per sample, in order
Predict(det_iter) == [k \in 1..Len(det_iter.data) |-> NetOutput(det_iter.data[k])]

(***************************************************************************)
(* Detector.detect                                                         *)
(***************************************************************************)
\* np.where(det[:, 0] >= 0)[0]: the indices of the rows kept, ascending
RECURSIVE where_from(_, _)
where_from(d, i) ==
    IF i > Len(d) THEN <<>>
    ELSE (IF d[i][1] >= 0 THEN <<i>> ELSE <<>>) \o where_from(d, i + 1)

\* faulty variant of where: the comparison is strict
where_strict(d) == LET idx == where_from(d, 1) IN SelectSeq(idx, LAMBDA i : d[i][1] > 0)

where(d) == where_from(d, 1)

\* det[idx]: numpy indexing of the rows by an index array
take(d, idx) == [k \in 1..Len(idx) |-> d[idx[k]]]

\* faulty variant of filter_rows: the first selected row is lost
filter_rows_skip(d) == LET idx == where(d) IN take(d, IF idx = <<>> THEN idx ELSE Tail(idx))

\* line 89: res = det[np.where(det[:, 0] >= 0)[0]]
filter_rows(d) == take(d, where(d))

\* faulty variant of filter_all: each result is put in front of the list
RECURSIVE filter_all_prepend(_, _, _)
filter_all_prepend(detections, i, result) ==
    IF i > Len(detections) THEN result
    ELSE filter_all_prepend(detections, i + 1, <<filter_rows(detections[i])>> \o result)

\* lines 86-90: the loop over detections.shape[0], appending to result
RECURSIVE filter_all(_, _, _)
filter_all(detections, i, result) ==
    IF i > Len(detections) THEN result
    ELSE filter_all(detections, i + 1, Append(result, filter_rows(detections[i])))

\* what a call leaves behind: the error raised (None when it returned), whether
\* the timing line was printed, the source fed to predict, predict's output,
\* the returned list, the calls made by detect_and_visualize in order, what the
\* last visualize_detection drew on its copy of the image, and what imshow
\* displayed
NoOut == [error |-> None, printed |-> FALSE, fed |-> NoSource, predicted |-> FALSE,
          detections |-> <<>>, result |-> <<>>, trace |-> <<>>, canvas |-> <<>>,
          shown |-> <<>>]

\* faulty variant of detect_run: the timing line is printed whatever show_timer is
detect_run_always_print(det_iter, show_timer, predict_ok) ==
    LET it == IF det_iter.prefetching THEN det_iter ELSE PrefetchingIter(det_iter)
        detections == Predict(it)
    IN  IF ~predict_ok \/ it.broken
        THEN [NoOut EXCEPT !.fed = it, !.predicted = TRUE, !.error = "predict"]
        ELSE [NoOut EXCEPT !.fed = it, !.predicted = TRUE, !.detections = detections,
                           !.printed = TRUE,
                           !.result = filter_all(detections, 1, <<>>)]

detect_run(det_iter, show_timer, predict_ok) ==
    LET it == IF det_iter.prefetching THEN det_iter                  \* lines 60-61
              ELSE PrefetchingIter(det_iter)
        detections == Predict(it)                                     \* line 82
    IN  IF ~predict_ok \/ it.broken
        THEN [NoOut EXCEPT !.fed = it, !.predicted = TRUE, !.error = "predict"]
        ELSE [NoOut EXCEPT !.fed = it, !.predicted = TRUE, !.detections = detections,
                           !.printed = show_timer,                    \* lines 84-85
                           !.result = filter_all(detections, 1, <<>>)]  \* lines 86-91

(***************************************************************************)
(* Detector.im_detect and Detector.im_detect_single                        *)
(***************************************************************************)
\* lines 112-115
im_detect_run(s, im_list, show_timer, predict_ok) ==
    LET test_db == TestDB(im_list)
        test_iter == DetIter(test_db, 1, s.data_shape, s.mean_pixels)
    IN  detect_run(test_iter, show_timer, predict_ok)

\* lines 131-133
im_detect_single_run(s, img, show_timer, predict_ok) ==
    IF ~img.ok
    THEN [NoOut EXCEPT !.error = "NDArrayIter"]
    ELSE detect_run(NDArrayIter(img, 1), show_timer, predict_ok)


(***************************************************************************)
(* Detector.visualize_detection                                            *)
(***************************************************************************)
\* a decoded picture: which picture it is and its channel order, or None
NoneImg == [ok |-> FALSE, pic |-> 0, order |-> None]
\* im.shape of every picture of the model
ImShape == [yscale |-> 100, xscale |-> 200]

Flip(order) == IF order = "rgb" THEN "bgr" ELSE "rgb"

\* int() of a quotient: truncation toward zero
IntTrunc(n, d) == IF n >= 0 THEN n \div d ELSE -((-n) \div d)

\* Python's seq[i]: -len <= i < len, negative indices count from the end
PyHasIndex(sq, i) == -Len(sq) <= i /\ i < Len(sq)
PyIndex(sq, i) == IF i >= 0 THEN sq[i + 1] ELSE sq[Len(sq) + i + 1]

\* lines 157-171: the loop over dets; stops at the first statement that raises.
\* map(int, bbox) is a list, as in the Python 2 the file is written for.
RECURSIVE draw_from(_, _, _, _, _)
draw_from(dets, i, classes, thresh, canvas) ==
    IF i > Len(dets) THEN [canvas |-> canvas, error |-> None]
    ELSE
      LET d == dets[i]
          cls_id == d[1]                                              \* line 158
          bbox == << IntTrunc(d[3] * ImShape.xscale, 100),            \* lines 159, 162
                     IntTrunc(d[4] * ImShape.yscale, 100),
                     IntTrunc(d[5] * ImShape.xscale, 100),
                     IntTrunc(d[6] * ImShape.yscale, 100) >>
          score == d[2]                                               \* line 160
          rect == Append(canvas, <<"rectangle", bbox[1], bbox[2], bbox[3], bbox[4]>>)
      IN  IF score > thresh                                           \* line 161
          THEN IF ~PyHasIndex(classes, cls_id)                        \* line 164
               THEN [canvas |-> rect, error |-> "IndexError"]
               ELSE draw_from(dets, i + 1, classes, thresh,
                        rect \o << <<"label", bbox[1], bbox[2]>>,     \* line 169
                                   <<"text", PyIndex(classes, cls_id), score,
                                     bbox[1], bbox[2]>> >>)           \* lines 170-171
          ELSE draw_from(dets, i + 1, classes, thresh, canvas)

visualize_detection_run(img, dets, classes, thresh) ==
    LET im == [img EXCEPT !.order = Flip(img.order)]                  \* line 154
        d == draw_from(dets, 1, classes, thresh, <<>>)
    IN  IF d.error # None
        THEN [NoOut EXCEPT !.canvas = d.canvas, !.error = d.error]
        ELSE [NoOut EXCEPT !.canvas = d.canvas,
                           !.shown = << [im |-> im, canvas |-> d.canvas] >>]   \* line 172

(***************************************************************************)
(* Detector.detect_and_visualize                                           *)
(***************************************************************************)
\* str.endswith
EndsWith(str, suffix) ==
    /\ Len(str) >= Len(suffix)
    /\ SubSeq(str, Len(str) - Len(suffix) + 1, Len(str)) = suffix

dot_png == <<".", "p", "n", "g">>
dot_jpg == <<".", "j", "p", "g">>
dot_mp4 == <<".", "m", "p", "4">>
dot_avi == <<".", "a", "v", "i">>

\* faulty variant of branch: the final else falls into the still-image branch
branch_no_else(imgname) ==
    IF EndsWith(imgname, dot_mp4) \/ EndsWith(imgname, dot_avi) THEN "video" ELSE "image"

\* lines 194, 202, 211: which arm of the if/elif/else runs
branch(imgname) ==
    IF EndsWith(imgname, dot_png) \/ EndsWith(imgname, dot_jpg) THEN "image"
    ELSE IF EndsWith(imgname, dot_mp4) \/ EndsWith(imgname, dot_avi) THEN "video"
    ELSE "unknown"

\* cv2.imread(path): None unless the file decodes as a still image
imread(file) ==
    IF file.kind \in {"image", "both"}
    THEN [ok |-> TRUE, pic |-> file.pic, order |-> "bgr"] ELSE NoneImg

\* cv2.VideoCapture(path).read(): the first frame, or None; every one of the
\* FrameHeight entries along the first axis of the frame is a sample
cap_read(file) ==
    IF file.kind \in {"video", "both"}
    THEN Array([r \in 1..FrameHeight |-> file.pic]) ELSE NoneArray

\* lines 197-201 and 206-210: for k, det in enumerate(dets)
RECURSIVE show_loop(_, _, _, _, _, _, _)
show_loop(dets, k, file, classes, thresh, wait, out) ==
    IF k > Len(dets) THEN out
    ELSE
      LET img == imread(file)                                         \* lines 198, 207
          read == [out EXCEPT !.trace = Append(@, "imread")]
          swapped == [img EXCEPT !.order = Flip(img.order)]           \* lines 199, 208
          v == visualize_detection_run(swapped, dets[k], classes, thresh)
          called == [read EXCEPT !.trace = Append(@, "visualize_detection"),
                                 !.canvas = v.canvas]
      IN  IF ~img.ok
          THEN [read EXCEPT !.error = "TypeError"]
          ELSE IF v.error # None
          THEN [called EXCEPT !.error = v.error]
          ELSE show_loop(dets, k + 1, file, classes, thresh, wait,
                         [called EXCEPT !.shown = @ \o v.shown,
                                        !.trace = Append(@, wait)])   \* lines 201, 210

detect_and_visualize_run(s, imgname, file, classes, thresh, show_timer, predict_ok) ==
    LET b == branch(imgname)
    IN  IF b = "image"
        THEN LET o == im_detect_run(s, <<file>>, show_timer, predict_ok)   \* line 196
                 t == [o EXCEPT !.trace = <<"im_detect">>]
             IN  IF o.error # None THEN t
                 ELSE show_loop(o.result, 1, file, classes, thresh, "waitKey()", t)
        ELSE IF b = "video"
        THEN LET img == cap_read(file)                                \* lines 203-204
                 o == im_detect_single_run(s, img, FALSE, predict_ok) \* line 205
                 t == [o EXCEPT !.trace = <<"VideoCapture", "read", "im_detect_single">>]
             IN  IF o.error # None THEN t
                 ELSE show_loop(o.result, 1, file, classes, thresh, "waitKey(1)", t)
        ELSE [NoOut EXCEPT !.error = "IOError"]                       \* line 212


(***************************************************************************)
(* Inputs of the calls.                                                    *)
(***************************************************************************)
Sources ==
    [batch_size : 1..MaxBatch, prefetching : BOOLEAN,
     data : SeqsUpTo(ImageIds, MaxImages), broken : {FALSE}]

Arrays == {NoneArray} \cup {Array(sq) : sq \in SeqsUpTo(ImageIds, MaxImages)}

VisRows == {<<c, sc, 10, 10, 50, 50>> : c \in {0, 1}, sc \in {59, 60, 61}}
VisImages == [ok : {TRUE}, pic : {0}, order : {"rgb", "bgr"}]
ClassLists == { <<>>, <<"cat">>, <<"cat", "dog">> }
Thresholds == {DefaultThresh}

FileNames ==
    { <<"a">> \o dot_png, <<"a">> \o dot_jpg, <<"a">> \o dot_mp4, <<"a">> \o dot_avi,
      <<"a", ".", "t", "x", "t">>, <<"a", ".", "P", "N", "G">>,
      <<"p", "n", "g">>, <<"a">> \o dot_png \o <<".", "b">>, <<>> }

\* rows the filter is applied to on its own
AnyRows == {<<c, sc, 0, 0, 100, 100>> : c \in {-2, -1, 0, 1, 2}, sc \in {30, 90}}

NoCall == [op |-> None, args |-> <<>>, out |-> NoOut]
NoRes == [done |-> FALSE, rows |-> <<>>]

(***************************************************************************)
(* The program: one caller, one Detector.                                  *)
(***************************************************************************)
Init ==
    /\ self = NoSelf
    /\ ctor = NoCtor
    /\ call = NoCall
    /\ pc = "idle"
    /\ det = <<>>
    /\ res = NoRes
    /\ res2 = NoRes

\* Detector(symbol, model_prefix, epoch, data_shape, mean_pixels, batch_size, ctx)
Detector_init ==
    /\ pc = "idle"
    /\ ~self.exists
    /\ \E a \in InitArgs, fault \in RuntimeFaults :
          LET r == init_run(a, fault)
          IN  /\ ctor' = r.ctor
              /\ self' = r.self
    /\ UNCHANGED <<call, pc, det, res, res2>>

detect ==
    /\ pc = "idle"
    /\ self.exists
    /\ \E det_iter \in Sources, show_timer \in BOOLEAN, predict_ok \in BOOLEAN :
          call' = [op |-> "detect",
                   args |-> [det_iter |-> det_iter, show_timer |-> show_timer],
                   out |-> detect_run(det_iter, show_timer, predict_ok)]
    /\ pc' = "returned"
    /\ UNCHANGED <<self, ctor, det, res, res2>>

im_detect ==
    /\ pc = "idle"
    /\ self.exists
    /\ \E im_list \in SeqsUpTo(ImageFiles, MaxImages), show_timer \in BOOLEAN,
          predict_ok \in BOOLEAN :
          call' = [op |-> "im_detect",
                   args |-> [im_list |-> im_list, show_timer |-> show_timer],
                   out |-> im_detect_run(self, im_list, show_timer, predict_ok)]
    /\ pc' = "returned"
    /\ UNCHANGED <<self, ctor, det, res, res2>>

im_detect_single ==
    /\ pc = "idle"
    /\ self.exists
    /\ \E img \in Arrays, show_timer \in BOOLEAN, predict_ok \in BOOLEAN :
          call' = [op |-> "im_detect_single",
                   args |-> [img |-> img, show_timer |-> show_timer],
                   out |-> im_detect_single_run(self, img, show_timer, predict_ok)]
    /\ pc' = "returned"
    /\ UNCHANGED <<self, ctor, det, res, res2>>

visualize_detection ==
    /\ pc = "idle"
    /\ self.exists
    /\ \E img \in VisImages, dets \in SeqsUpTo(VisRows, MaxDet),
          classes \in ClassLists, thresh \in Thresholds :
          call' = [op |-> "visualize_detection",
                   args |-> [img |-> img, dets |-> dets, classes |-> classes,
                             thresh |-> thresh],
                   out |-> visualize_detection_run(img, dets, classes, thresh)]
    /\ pc' = "returned"
    /\ UNCHANGED <<self, ctor, det, res, res2>>

\* root_dir and extension are left at their default, None
detect_and_visualize ==
    /\ pc = "idle"
    /\ self.exists
    /\ \E imgname \in FileNames, file \in Files, classes \in ClassLists,
          thresh \in Thresholds, show_timer \in BOOLEAN, predict_ok \in BOOLEAN :
          call' = [op |-> "detect_and_visualize",
                   args |-> [imgname |-> imgname, file |-> file, classes |-> classes,
                             thresh |-> thresh, show_timer |-> show_timer],
                   out |-> detect_and_visualize_run(self, imgname, file, classes, thresh,
                                                    show_timer, predict_ok)]
    /\ pc' = "returned"
    /\ UNCHANGED <<self, ctor, det, res, res2>>

\* the caller takes what the call returned or raised and goes on
Return ==
    /\ pc = "returned"
    /\ pc' = "idle"
    /\ call' = NoCall
    /\ UNCHANGED <<self, ctor, det, res, res2>>

Next ==
    \/ Detector_init
    \/ detect
    \/ im_detect
    \/ im_detect_single
    \/ visualize_detection
    \/ detect_and_visualize
    \/ Return

Spec == Init /\ [][Next]_vars

(***************************************************************************)
(* The result filter of line 89 on its own: applied to a tensor, and then  *)
(* to its own output.                                                      *)
(***************************************************************************)
InitFilter ==
    /\ self = NoSelf
    /\ ctor = NoCtor
    /\ call = NoCall
    /\ pc = "idle"
    /\ det \in SeqsUpTo(AnyRows, MaxDet)
    /\ res = NoRes
    /\ res2 = NoRes

ApplyFilter ==
    /\ ~res.done
    /\ res' = [done |-> TRUE, rows |-> filter_rows(det)]
    /\ UNCHANGED <<self, ctor, call, pc, det, res2>>

ApplyFilterAgain ==
    /\ res.done
    /\ ~res2.done
    /\ res2' = [done |-> TRUE, rows |-> filter_rows(res.rows)]
    /\ UNCHANGED <<self, ctor, call, pc, det, res>>

NextFilter == ApplyFilter \/ ApplyFilterAgain

SpecFilter == InitFilter /\ [][NextFilter]_vars


(***************************************************************************)
(* Properties.                                                             *)
(***************************************************************************)
\* the rows of a tensor whose first column is >= 0, in their order
ValidRows(t) == SelectSeq(t, LAMBDA r : r[1] >= 0)

ResultOps == {"detect", "im_detect", "im_detect_single", "detect_and_visualize"}
WrapperOps == {"im_detect", "im_detect_single"}
DetectOps == {"detect"} \cup WrapperOps

\* the call got an output tensor back from predict
GotDetections == call.op \in ResultOps /\ call.out.predicted /\ call.out.error # "predict"

\* C1: for every per-image output tensor (max_detections rows) that predict
\* produced, the Detection Batch returned for that image is exactly the
\* sub-sequence of the tensor's rows whose first column is >= 0, in their
\* original order, and it has at most max_detections rows.
C1_FilterKeepsValidRows ==
    GotDetections =>
        /\ Len(call.out.result) = Len(call.out.detections)
        /\ \A i \in 1..Len(call.out.detections) :
              /\ Len(call.out.detections[i]) = MaxDet
              /\ call.out.result[i] = ValidRows(call.out.detections[i])
              /\ \A k \in 1..Len(call.out.result[i]) : call.out.result[i][k][1] >= 0
              /\ Len(call.out.result[i]) <= MaxDet

\* C1 witness: a tensor with a padding row in front of a valid row came back,
\* and the batch returned for it is the valid row alone.
C1_Witness ==
    /\ GotDetections
    /\ \E i \in 1..Len(call.out.detections) :
          /\ call.out.detections[i][1][1] < 0
          /\ call.out.detections[i][2][1] >= 0
          /\ Len(call.out.result[i]) < Len(call.out.detections[i])
          /\ call.out.result[i][1] = call.out.detections[i][2]

\* the samples submitted by a call, in submission order
Submitted ==
    IF call.op = "detect" THEN call.args.det_iter.data
    ELSE IF call.op = "im_detect"
    THEN [k \in 1..Len(call.args.im_list) |-> call.args.im_list[k].pic]
    ELSE call.args.img.samples

\* C2: a batch of N images submitted to detect (directly, or through a source
\* built by im_detect or im_detect_single) yields exactly N Detection Batches,
\* the i-th being the filtered detections of the i-th submitted image.
C2_OneBatchPerImageInOrder ==
    (call.op \in DetectOps /\ call.out.error = None) =>
        /\ Len(call.out.result) = Len(Submitted)
        /\ \A i \in 1..Len(Submitted) :
              call.out.result[i] = ValidRows(NetOutput(Submitted[i]))

\* C2 witness: two images with different detections were submitted and two
\* different batches came back.
C2_Witness ==
    /\ call.op \in DetectOps
    /\ call.out.error = None
    /\ Len(Submitted) = 2
    /\ Len(call.out.result) = 2
    /\ call.out.result[1] # call.out.result[2]

\* the name ends in one of the four supported extensions
KnownExtension(name) ==
    /\ Len(name) >= 4
    /\ <<name[Len(name) - 3], name[Len(name) - 2], name[Len(name) - 1], name[Len(name)]>>
          \in {dot_png, dot_jpg, dot_mp4, dot_avi}

\* C3: detect_and_visualize with a file name that ends in none of .png, .jpg,
\* .mp4, .avi raises the unsupported-format error, and no detection, no
\* render and no wait-for-key call is made on that path.
C3_UnknownExtensionRaises ==
    (call.op = "detect_and_visualize" /\ ~KnownExtension(call.args.imgname)) =>
        /\ call.out.error = "IOError"
        /\ ~call.out.predicted
        /\ call.out.trace = <<>>
        /\ call.out.canvas = <<>>
        /\ call.out.shown = <<>>
        /\ ~call.out.printed

\* C3 witness: the call was made with a.txt and raised IOError.
C3_Witness ==
    /\ call.op = "detect_and_visualize"
    /\ call.args.imgname = <<"a", ".", "t", "x", "t">>
    /\ call.out.error = "IOError"

CountOps(canvas, kind) == Cardinality({k \in 1..Len(canvas) : canvas[k][1] = kind})
AboveThreshold(dets, thresh) == {i \in 1..Len(dets) : dets[i][2] > thresh}

\* C4: visualize_detection draws a box (rectangle, label background and text)
\* for a record if and only if its score is strictly greater than thresh: the
\* number of rectangles, of label backgrounds and of texts drawn each equals the
\* number of records whose score exceeds the threshold.
C4_BoxIffScoreAboveThreshold ==
    call.op = "visualize_detection" =>
        LET n == Cardinality(AboveThreshold(call.args.dets, call.args.thresh))
        IN  /\ CountOps(call.out.canvas, "rectangle") = n
            /\ CountOps(call.out.canvas, "label") = n
            /\ CountOps(call.out.canvas, "text") = n

AllSteps == <<"load_checkpoint", "Module", "bind", "set_params">>

\* C5: the lifecycle is constructed -> bound -> ready.  No call runs on a
\* handle whose construction did not complete; construction with a checkpoint
\* that does not exist fails at load_checkpoint, before the module is created
\* or bound and before any call can be made; and a constructed detector
\* between calls can always be asked to detect again.
C5_Lifecycle ==
    /\ (call.op # None \/ self.exists) =>
          /\ self.exists
          /\ ctor.called
          /\ ctor.error = None
          /\ ctor.steps = AllSteps
    /\ (ctor.called /\ <<ctor.args.model_prefix, ctor.args.epoch>> \notin Checkpoints) =>
          /\ ctor.error = "load_checkpoint"
          /\ ctor.steps = <<"load_checkpoint">>
          /\ ~self.exists
          /\ call.op = None
    /\ (self.exists /\ pc = "idle") => ENABLED detect

\* C5 witness: the constructor was called with a prefix no checkpoint has and
\* raised at load_checkpoint.
C5_Witness ==
    /\ ctor.called
    /\ ctor.args.model_prefix = "nofile"
    /\ ctor.error = "load_checkpoint"
    /\ ~self.exists

\* C6: filtering is idempotent: the filter applied to its own output returns
\* the same rows in the same order, for every input tensor.
C6_FilterIdempotent ==
    res2.done => (res.done /\ res2.rows = res.rows)

\* C6 witness: the filter dropped some rows and kept others, and was applied
\* again to what it kept.
C6_Witness ==
    /\ res2.done
    /\ res.rows # <<>>
    /\ Len(res.rows) < Len(det)

\* C7: detect_and_visualize with a path ending in .mp4 or .avi (naming a file
\* the capture stream decodes) opens the stream, reads one frame, runs
\* single-frame detection on it and renders the detections onto that frame:
\* the call ends without error, with one render per returned Detection Batch.
C7_VideoFirstFrameRendered ==
    ( /\ call.op = "detect_and_visualize"
      /\ (EndsWith(call.args.imgname, dot_mp4) \/ EndsWith(call.args.imgname, dot_avi))
      /\ call.args.file.kind \in {"video", "both"}
      /\ call.args.classes = <<"cat", "dog">>
      /\ call.out.error # "predict" ) =>
        /\ call.out.error = None
        /\ SubSeq(call.out.trace, 1, 3) = <<"VideoCapture", "read", "im_detect_single">>
        /\ Len(call.out.shown) = Len(call.out.result)
        /\ \A k \in 1..Len(call.out.shown) : call.out.shown[k].im.pic = call.args.file.pic

\* C8: constructed with ctx = None, the context the module is created with is
\* the CPU context, the same context the handle records as self.ctx.
C8_DefaultContextIsCpu ==
    (ctor.called /\ ctor.args.ctx = None /\ \E k \in 1..Len(ctor.steps) : ctor.steps[k] = "Module") =>
        /\ ctor.self_ctx = "cpu"
        /\ ctor.module_context = "cpu"
        /\ ctor.module_context = ctor.self_ctx

\* C9: a detect, im_detect or im_detect_single call leaves the handle (bound
\* shape, input side, mean pixels, context, parameters) as construction set
\* it, makes no cv2 call, and prints the timing line only if show_timer is
\* true, and always when show_timer is true and the call returns.
C9_DetectLeavesHandleAlone ==
    [][ (pc = "idle" /\ call'.op \in DetectOps) =>
          /\ self' = self
          /\ ctor' = ctor
          /\ call'.out.trace = <<>>
          /\ call'.out.canvas = <<>>
          /\ call'.out.shown = <<>>
          /\ (call'.out.printed => call'.args.show_timer)
          /\ (call'.out.error = None => (call'.out.printed <=> call'.args.show_timer)) ]_vars

\* C9 witness: a detect call with show_timer = FALSE returned a non-empty list
\* and printed nothing.
C9_Witness ==
    /\ call.op \in DetectOps
    /\ ~call.args.show_timer
    /\ call.out.error = None
    /\ call.out.result # <<>>
    /\ ~call.out.printed
    /\ self.exists

\* C10: every batch source that im_detect and im_detect_single feed to
\* predict has the batch size the network was bound with at construction.
C10_WrapperBatchSizeIsBoundBatchSize ==
    (call.op \in WrapperOps /\ call.out.predicted /\ call.out.error = None
        /\ call.out.fed.data # <<>>) =>
        call.out.fed.batch_size = self.mod.data_shapes[1]


====
